---- MODULE Spec2Model ----
(***************************************************************************)
(* A model of WeissDB's app.py: the facet enumerator, the filter builder,  *)
(* the two searches, the two memoised accessors and the Streamlit script   *)
(* that wires them to the widgets.                                         *)
(*                                                                         *)
(* Python values.  A str is the sequence of its code points, so that       *)
(* strip(), == and sorted() are computed and not postulated:               *)
(*   "Red" = <<82,101,100>>,  "red" = <<114,101,100>>,  "" = <<>>.           *)
(* None is the one-element sequence <<-1>>, which is no str (code points   *)
(* are >= 0).  A dict is a function on its keys; the order of its items    *)
(* (insertion order) is given apart, where the code depends on it.         *)
(***************************************************************************)
EXTENDS Integers, Sequences, FiniteSets, TLC

VARIABLES
    collection,   \* the records of the Chroma collection, in storage order
    uv_cache,     \* the memo of get_unique_values_cached: <<>> or <<dict>>
    fc_cache,     \* the memo of get_filtered_cards: a set of [key, value]
    sel,          \* the six selectbox values / the six build_filter_dict arguments
    user_query,   \* the text_input value / the query_text argument
    n_results,    \* the "Number of results" slider / the n_results argument
    dumb_limit,   \* the "Max number of results" slider / the limit argument
    filter_dict,  \* the filter the last operation built or was given; {} if none
    field_name,   \* the field_name argument of the last get_unique_values call
    ret,          \* what the last operation returned
    op,           \* the name of the last operation, "none" before any
    calls,        \* the calls the last operation made on the collection and the model:
                  \* "get_page" (get with limit and offset), "get", "query", "encode"
    mutations     \* how often another process has changed the collection

vars == <<collection, uv_cache, fc_cache, sel, user_query, n_results, dumb_limit,
          filter_dict, field_name, ret, op, calls, mutations>>

----------------------------------------------------------------------------
(* Strings *)

None == <<-1>>

\* "(No Filter)"
NoFilter == <<40, 78, 111, 32, 70, 105, 108, 116, 101, 114, 41>>

EmptyStr == <<>>
Red == <<82, 101, 100>>
red == <<114, 101, 100>>
Blue == <<66, 108, 117, 101>>
Booster1 == <<66, 111, 111, 115, 116, 101, 114, 49>>
Booster2 == <<66, 111, 111, 115, 116, 101, 114, 50>>

\* The characters str.strip() removes: the ASCII white space and the
\* separators \x1c..\x1f, NEL and NBSP.
Whitespace == {9, 10, 11, 12, 13, 28, 29, 30, 31, 32, 133, 160}

\* Python truth of a str or None: `if v`.
Truthy(v) == v # None /\ v # EmptyStr

RECURSIVE lstrip(_)
lstrip(s) ==
    IF s # <<>> /\ Head(s) \in Whitespace THEN lstrip(Tail(s)) ELSE s

RECURSIVE rstrip(_)
rstrip(s) ==
    IF s # <<>> /\ s[Len(s)] \in Whitespace THEN rstrip(SubSeq(s, 1, Len(s) - 1)) ELSE s

\* str.strip()
strip(s) == rstrip(lstrip(s))

\* a < b for two str: the first differing code point decides, a proper prefix is smaller.
RECURSIVE StrLess(_, _)
StrLess(a, b) ==
    IF b = <<>> THEN FALSE
    ELSE IF a = <<>> THEN TRUE
    ELSE IF Head(a) # Head(b) THEN Head(a) < Head(b)
    ELSE StrLess(Tail(a), Tail(b))

\* sorted(list(S)) for a set S of str.
RECURSIVE sorted(_)
sorted(S) ==
    IF S = {} THEN <<>>
    ELSE LET m == CHOOSE x \in S : \A y \in S : x = y \/ StrLess(x, y)
         IN  <<m>> \o sorted(S \ {m})

Range(s) == {s[i] : i \in 1..Len(s)}

Min(a, b) == IF a < b THEN a ELSE b

----------------------------------------------------------------------------
(* Dicts *)

EmptyMap == [k \in {} |-> <<>>]

Map1(k, v) == [x \in {k} |-> v]

\* The six facet fields, in the order the dict literals of the code list them.
FieldOrder == <<"set_name", "card_type", "color", "rarity", "level", "triggers">>

FacetFields == Range(FieldOrder)

----------------------------------------------------------------------------
(* build_filter_dict *)

build_filter_dict_keep_sentinel(set_name, card_type, color, rarity, level, triggers) ==
    LET all == [set_name |-> set_name, card_type |-> card_type, color |-> color,
                rarity |-> rarity, level |-> level, triggers |-> triggers]
        keys == {k \in FacetFields : Truthy(all[k])}
        f == [k \in keys |-> all[k]]
        ks == SelectSeq(FieldOrder, LAMBDA k : k \in keys)
    IN  IF Cardinality(keys) > 1
          THEN Map1("$and", [i \in 1..Len(ks) |-> Map1(ks[i], f[ks[i]])])
        ELSE IF Cardinality(keys) = 1 THEN f
        ELSE EmptyMap

build_filter_dict_always_and(set_name, card_type, color, rarity, level, triggers) ==
    LET all == [set_name |-> set_name, card_type |-> card_type, color |-> color,
                rarity |-> rarity, level |-> level, triggers |-> triggers]
        keys == {k \in FacetFields : Truthy(all[k]) /\ all[k] # NoFilter}
        f == [k \in keys |-> all[k]]
        ks == SelectSeq(FieldOrder, LAMBDA k : k \in keys)
    IN  IF Cardinality(keys) >= 1
          THEN Map1("$and", [i \in 1..Len(ks) |-> Map1(ks[i], f[ks[i]])])
        ELSE EmptyMap

build_filter_dict_bare_multi(set_name, card_type, color, rarity, level, triggers) ==
    LET all == [set_name |-> set_name, card_type |-> card_type, color |-> color,
                rarity |-> rarity, level |-> level, triggers |-> triggers]
        keys == {k \in FacetFields : Truthy(all[k]) /\ all[k] # NoFilter}
    IN  [k \in keys |-> all[k]]

build_filter_dict(set_name, card_type, color, rarity, level, triggers) ==
    LET all == [set_name |-> set_name, card_type |-> card_type, color |-> color,
                rarity |-> rarity, level |-> level, triggers |-> triggers]
        keys == {k \in FacetFields : Truthy(all[k]) /\ all[k] # NoFilter}
        f == [k \in keys |-> all[k]]
        ks == SelectSeq(FieldOrder, LAMBDA k : k \in keys)
    IN  IF Cardinality(keys) > 1
          THEN Map1("$and", [i \in 1..Len(ks) |-> Map1(ks[i], f[ks[i]])])
        ELSE IF Cardinality(keys) = 1 THEN f
        ELSE EmptyMap

\* build_filter_dict applied to the six selections, as main passes them.
BuildFromSel(s) ==
    build_filter_dict(s["set_name"], s["card_type"], s["color"],
                      s["rarity"], s["level"], s["triggers"])

----------------------------------------------------------------------------
(* The Chroma collection.  A record of it is                               *)
(*   [id, doc, meta, emb]: its id, its document, its metadata dict and its *)
(* embedding (one coordinate).  The collection is the sequence of its      *)
(* records in storage order.                                               *)

\* One equality condition {field: value} on a metadata dict.
MatchEq(md, cond) == \A k \in DOMAIN cond : k \in DOMAIN md /\ md[k] = cond[k]

\* A where expression: {field: value} or {"$and": [{field: value}, ...]}.
Matches(md, where) ==
    IF DOMAIN where = {"$and"}
      THEN \A i \in 1..Len(where["$and"]) : MatchEq(md, where["$and"][i])
      ELSE MatchEq(md, where)

Where(coll, kwargs) ==
    IF "where" \in DOMAIN kwargs
      THEN SelectSeq(coll, LAMBDA r : Matches(r.meta, kwargs.where))
      ELSE coll

\* collection.get(include=..., limit=..., offset=..., where=...)
CollectionGet(coll, kwargs) ==
    LET matched == Where(coll, kwargs)
        offset == IF "offset" \in DOMAIN kwargs THEN kwargs.offset ELSE 0
        last == IF "limit" \in DOMAIN kwargs
                  THEN Min(Len(matched), offset + kwargs.limit)
                  ELSE Len(matched)
        page == SubSeq(matched, offset + 1, last)
    IN  [ids |-> [i \in 1..Len(page) |-> page[i].id],
         documents |-> IF "documents" \in kwargs.include
                         THEN [i \in 1..Len(page) |-> page[i].doc] ELSE None,
         metadatas |-> IF "metadatas" \in kwargs.include
                         THEN [i \in 1..Len(page) |-> page[i].meta] ELSE None]

\* model.encode(text): the embedding of a text, one coordinate.
RECURSIVE SumSeq(_)
SumSeq(s) == IF s = <<>> THEN 0 ELSE Head(s) + SumSeq(Tail(s))

Encode(text) == SumSeq(text) % 5

\* The squared L2 distance of a record to a query embedding.
Distance(r, e) == (r.emb - e) * (r.emb - e)

\* x put into a list ranked by distance, after the records that are as close.
RECURSIVE InsertByDistance(_, _, _)
InsertByDistance(x, s, e) ==
    IF s = <<>> THEN <<x>>
    ELSE IF Distance(x, e) < Distance(Head(s), e) THEN <<x>> \o s
    ELSE <<Head(s)>> \o InsertByDistance(x, Tail(s), e)

RECURSIVE RankByDistance(_, _)
RankByDistance(s, e) ==
    IF s = <<>> THEN <<>>
    ELSE InsertByDistance(s[Len(s)], RankByDistance(SubSeq(s, 1, Len(s) - 1), e), e)

\* collection.query(query_embeddings=[e], n_results=..., include=..., where=...):
\* the n_results nearest of the matching records, closest first; one inner
\* list per query embedding.
CollectionQuery(coll, kwargs) ==
    LET e == kwargs.query_embeddings[1]
        ranked == RankByDistance(Where(coll, kwargs), e)
        top == SubSeq(ranked, 1, Min(Len(ranked), kwargs.n_results))
    IN  [ids |-> << [i \in 1..Len(top) |-> top[i].id] >>,
         documents |-> << [i \in 1..Len(top) |-> top[i].doc] >>,
         metadatas |-> << [i \in 1..Len(top) |-> top[i].meta] >>,
         distances |-> << [i \in 1..Len(top) |-> Distance(top[i], e)] >>]

----------------------------------------------------------------------------
(* get_unique_values *)

PageSize == 1000

\* md.get(field_name, "")
MdGet(md, f) == IF f \in DOMAIN md THEN md[f] ELSE EmptyStr

\* The body of the `for md in metadatas` loop over one page.
AddPage(unique_vals, metadatas, f) ==
    unique_vals \cup {v \in {strip(MdGet(metadatas[i], f)) : i \in 1..Len(metadatas)} :
                        Truthy(v)}

\* The `while True` loop from a given offset: the set accumulated and the
\* number of collection.get calls made.
RECURSIVE ScanFrom(_, _, _, _, _)
ScanFrom(coll, f, offset, unique_vals, gets) ==
    LET results == CollectionGet(coll, [include |-> {"metadatas"},
                                        limit |-> PageSize, offset |-> offset])
        metadatas == results.metadatas
    IN  IF Len(metadatas) = 0
          THEN [vals |-> unique_vals, gets |-> gets + 1]
          ELSE ScanFrom(coll, f, offset + PageSize,
                        AddPage(unique_vals, metadatas, f), gets + 1)

get_unique_values_one_page(coll, f) ==
    LET results == CollectionGet(coll, [include |-> {"metadatas"},
                                        limit |-> PageSize, offset |-> 0])
    IN  [ret |-> sorted(AddPage({}, results.metadatas, f)), calls |-> <<"get_page">>]

get_unique_values(coll, f) ==
    LET r == ScanFrom(coll, f, 0, {}, 0)
    IN  [ret |-> sorted(r.vals), calls |-> [i \in 1..r.gets |-> "get_page"]]

\* get_unique_values_cached under @st.cache_resource: the memo of a function
\* without arguments holds at most one entry, made by the first call.
get_unique_values_cached(cache, coll) ==
    IF cache # <<>>
      THEN [ret |-> cache[1], calls |-> <<>>, cache |-> cache]
      ELSE LET r == [f \in FacetFields |-> get_unique_values(coll, f)]
               d == [f \in FacetFields |-> r[f].ret]
           IN  [ret |-> d,
                calls |-> r["set_name"].calls \o r["card_type"].calls \o r["color"].calls
                          \o r["rarity"].calls \o r["level"].calls \o r["triggers"].calls,
                cache |-> <<d>>]

----------------------------------------------------------------------------
(* smart_search, dumb_search, get_filtered_cards *)

smart_search_no_strip(coll, model, query_text, n, fd) ==
    IF query_text = EmptyStr
      THEN [ret |-> <<>>, calls |-> <<>>]
      ELSE LET query_embedding == Encode(query_text)
               query_kwargs ==
                   IF fd # EmptyMap
                     THEN [query_embeddings |-> <<query_embedding>>, n_results |-> n,
                           include |-> {"metadatas", "distances", "documents"},
                           where |-> fd]
                     ELSE [query_embeddings |-> <<query_embedding>>, n_results |-> n,
                           include |-> {"metadatas", "distances", "documents"}]
               results == CollectionQuery(coll, query_kwargs)
           IN  [ret |-> [i \in 1..Len(results.ids[1]) |->
                           <<results.ids[1][i], results.documents[1][i],
                             results.metadatas[1][i], results.distances[1][i]>>],
                calls |-> <<"encode", "query">>]

smart_search_fixed_n(coll, model, query_text, n, fd) ==
    IF strip(query_text) = EmptyStr
      THEN [ret |-> <<>>, calls |-> <<>>]
      ELSE LET query_embedding == Encode(query_text)
               query_kwargs ==
                   IF fd # EmptyMap
                     THEN [query_embeddings |-> <<query_embedding>>, n_results |-> 10,
                           include |-> {"metadatas", "distances", "documents"},
                           where |-> fd]
                     ELSE [query_embeddings |-> <<query_embedding>>, n_results |-> 10,
                           include |-> {"metadatas", "distances", "documents"}]
               results == CollectionQuery(coll, query_kwargs)
           IN  [ret |-> [i \in 1..Len(results.ids[1]) |->
                           <<results.ids[1][i], results.documents[1][i],
                             results.metadatas[1][i], results.distances[1][i]>>],
                calls |-> <<"encode", "query">>]

smart_search(coll, model, query_text, n, fd) ==
    IF strip(query_text) = EmptyStr
      THEN [ret |-> <<>>, calls |-> <<>>]
      ELSE LET query_embedding == Encode(query_text)
               query_kwargs ==
                   IF fd # EmptyMap
                     THEN [query_embeddings |-> <<query_embedding>>, n_results |-> n,
                           include |-> {"metadatas", "distances", "documents"},
                           where |-> fd]
                     ELSE [query_embeddings |-> <<query_embedding>>, n_results |-> n,
                           include |-> {"metadatas", "distances", "documents"}]
               results == CollectionQuery(coll, query_kwargs)
           IN  [ret |-> [i \in 1..Len(results.ids[1]) |->
                           <<results.ids[1][i], results.documents[1][i],
                             results.metadatas[1][i], results.distances[1][i]>>],
                calls |-> <<"encode", "query">>]

dumb_search_no_limit(coll, fd, limit) ==
    LET query_kwargs ==
            IF fd # EmptyMap
              THEN [include |-> {"metadatas", "documents"}, where |-> fd]
              ELSE [include |-> {"metadatas", "documents"}]
        results == CollectionGet(coll, query_kwargs)
    IN  [ret |-> [i \in 1..Len(results.ids) |->
                    <<results.ids[i], results.documents[i], results.metadatas[i], None>>],
         calls |-> <<"get">>]

dumb_search_no_where(coll, fd, limit) ==
    LET query_kwargs == [include |-> {"metadatas", "documents"}, limit |-> limit]
        results == CollectionGet(coll, query_kwargs)
    IN  [ret |-> [i \in 1..Len(results.ids) |->
                    <<results.ids[i], results.documents[i], results.metadatas[i], None>>],
         calls |-> <<"get">>]

dumb_search(coll, fd, limit) ==
    LET query_kwargs ==
            IF fd # EmptyMap
              THEN [include |-> {"metadatas", "documents"}, limit |-> limit, where |-> fd]
              ELSE [include |-> {"metadatas", "documents"}, limit |-> limit]
        results == CollectionGet(coll, query_kwargs)
    IN  [ret |-> [i \in 1..Len(results.ids) |->
                    <<results.ids[i], results.documents[i], results.metadatas[i], None>>],
         calls |-> <<"get">>]

\* get_filtered_cards under @st.cache_resource: the memo is keyed by the
\* arguments (filter_dict, limit); an entry, once made, is returned as it is.
get_filtered_cards_uncached(cache, coll, fd, limit) ==
    LET r == dumb_search(coll, fd, limit)
    IN  [ret |-> r.ret, calls |-> r.calls,
         cache |-> cache \cup {[key |-> <<fd, limit>>, value |-> r.ret]}]

get_filtered_cards(cache, coll, fd, limit) ==
    LET hit == {e \in cache : e.key = <<fd, limit>>}
    IN  IF hit # {}
          THEN [ret |-> (CHOOSE e \in hit : TRUE).value, calls |-> <<>>, cache |-> cache]
          ELSE LET r == dumb_search(coll, fd, limit)
               IN  [ret |-> r.ret, calls |-> r.calls,
                    cache |-> cache \cup {[key |-> <<fd, limit>>, value |-> r.ret]}]

----------------------------------------------------------------------------
(* The values the specifications draw their inputs from *)

MaxCards == 3        \* the longest enumerated collection
MaxNResults == 3     \* the largest n_results drawn (the slider goes to 30)
MaxLimit == 3        \* the largest limit drawn for a direct dumb_search call

Pad(s) == <<32>> \o s \o <<9, 10>>

\* Card samples: metadata and embedding.  Values that differ only in case or
\* only in surrounding white space, an empty value, a missing field, a card
\* with all six facet fields.
Samples ==
    << [meta |-> [set_name |-> Booster1, color |-> Red], emb |-> 0],
       [meta |-> [set_name |-> Booster1, color |-> Pad(Red)], emb |-> 1],
       [meta |-> [set_name |-> Booster2, color |-> red], emb |-> 3],
       [meta |-> [color |-> EmptyStr], emb |-> 4],
       [meta |-> [set_name |-> Booster1, card_type |-> Blue, color |-> Blue,
                  rarity |-> Red, level |-> red, triggers |-> Pad(EmptyStr)],
        emb |-> 2] >>

\* The collection holding the given samples, in this order, with ids 1, 2, ...
Stored(ss) ==
    [i \in 1..Len(ss) |-> [id |-> i, doc |-> i, meta |-> ss[i].meta, emb |-> ss[i].emb]]

SeqsUpTo(S, n) == UNION {[1..k -> S] : k \in 0..n}

SmallCollections == {Stored(ss) : ss \in SeqsUpTo(Range(Samples), MaxCards)}

\* The argument values of build_filter_dict: the sentinel, the two falsy
\* values and two real ones.
ArgValues == {NoFilter, EmptyStr, None, Red, Blue}

QueryTexts == {EmptyStr, <<32>>, <<9, 10, 32>>, <<97>>, <<32, 97>>}

FilterSamples ==
    {EmptyMap, Map1("color", Red), Map1("set_name", Booster1),
     Map1("$and", <<Map1("set_name", Booster1), Map1("color", Red)>>)}

AllNoFilter == [f \in FacetFields |-> NoFilter]

----------------------------------------------------------------------------
(* The filter builder on its own *)

InitFilter ==
    /\ collection = <<>>
    /\ uv_cache = <<>>
    /\ fc_cache = {}
    /\ sel \in [FacetFields -> ArgValues]
    /\ user_query = EmptyStr
    /\ n_results = 1
    /\ dumb_limit = 1
    /\ filter_dict = EmptyMap
    /\ field_name = "none"
    /\ ret = <<>>
    /\ op = "none"
    /\ calls = <<>>
    /\ mutations = 0

CallBuildFilterDict ==
    /\ op = "none"
    /\ filter_dict' = BuildFromSel(sel)
    /\ op' = "build_filter_dict"
    /\ UNCHANGED <<collection, uv_cache, fc_cache, sel, user_query, n_results,
                   dumb_limit, field_name, ret, calls, mutations>>

NextFilter == CallBuildFilterDict

SpecFilter == InitFilter /\ [][NextFilter]_vars

----------------------------------------------------------------------------
(* The two searches on their own *)

InitSearch ==
    /\ collection \in SmallCollections
    /\ uv_cache = <<>>
    /\ fc_cache = {}
    /\ sel = AllNoFilter
    /\ user_query = EmptyStr
    /\ n_results = 1
    /\ dumb_limit = 1
    /\ filter_dict = EmptyMap
    /\ field_name = "none"
    /\ ret = <<>>
    /\ op = "none"
    /\ calls = <<>>
    /\ mutations = 0

CallSmartSearch ==
    \E q \in QueryTexts, n \in 1..MaxNResults, fd \in FilterSamples :
        LET r == smart_search(collection, "sbert", q, n, fd)
        IN  /\ op = "none"
            /\ user_query' = q
            /\ n_results' = n
            /\ filter_dict' = fd
            /\ ret' = r.ret
            /\ calls' = r.calls
            /\ op' = "smart_search"
            /\ UNCHANGED <<collection, uv_cache, fc_cache, sel, dumb_limit, field_name,
                           mutations>>

CallDumbSearch ==
    \E l \in 1..MaxLimit, fd \in FilterSamples :
        LET r == dumb_search(collection, fd, l)
        IN  /\ op = "none"
            /\ dumb_limit' = l
            /\ filter_dict' = fd
            /\ ret' = r.ret
            /\ calls' = r.calls
            /\ op' = "dumb_search"
            /\ UNCHANGED <<collection, uv_cache, fc_cache, sel, user_query, n_results,
                           field_name, mutations>>

NextSearch == CallSmartSearch \/ CallDumbSearch

SpecSearch == InitSearch /\ [][NextSearch]_vars

----------------------------------------------------------------------------
(* The facet enumerator on its own *)

\* A collection of n cards whose colours alternate between "Red" and "red",
\* except the cards at the positions of `special`, which are " Blue\t\n".
Generated(n, special) ==
    [i \in 1..n |->
        [id |-> i, doc |-> i,
         meta |-> [set_name |-> Booster1,
                   color |-> IF i \in special THEN Pad(Blue)
                             ELSE IF i % 2 = 0 THEN Red ELSE red],
         emb |-> i % 5]]

\* Collections around one and two pages, with the odd card last, first on a
\* page or absent.
PagedCollections ==
    {Generated(n, {n}) : n \in {PageSize - 1, PageSize, PageSize + 1,
                                2 * PageSize, 2 * PageSize + 1}}
    \cup {Generated(PageSize + 1, {}), Generated(2 * PageSize, {PageSize + 1})}

\* The scenario of the colours "Red", "red", "" and "Blue".
ScenarioCollection ==
    Stored(<< [meta |-> [color |-> Red], emb |-> 0], [meta |-> [color |-> red], emb |-> 0],
              [meta |-> [color |-> EmptyStr], emb |-> 0], [meta |-> [color |-> Blue], emb |-> 0] >>)

InitScan ==
    /\ collection \in SmallCollections \cup PagedCollections \cup {ScenarioCollection}
    /\ uv_cache = <<>>
    /\ fc_cache = {}
    /\ sel = AllNoFilter
    /\ user_query = EmptyStr
    /\ n_results = 1
    /\ dumb_limit = 1
    /\ filter_dict = EmptyMap
    /\ field_name = "none"
    /\ ret = <<>>
    /\ op = "none"
    /\ calls = <<>>
    /\ mutations = 0

CallGetUniqueValues ==
    \E f \in FacetFields :
        LET r == get_unique_values(collection, f)
        IN  /\ op = "none"
            /\ field_name' = f
            /\ ret' = r.ret
            /\ calls' = r.calls
            /\ op' = "get_unique_values"
            /\ UNCHANGED <<collection, uv_cache, fc_cache, sel, user_query, n_results,
                           dumb_limit, filter_dict, mutations>>

NextScan == CallGetUniqueValues

SpecScan == InitScan /\ [][NextScan]_vars

----------------------------------------------------------------------------
(* Properties of build_filter_dict, under SpecFilter *)

\* The arguments that are neither falsy nor the sentinel.
Selected(s) == {k \in FacetFields : s[k] # NoFilter /\ s[k] # EmptyStr /\ s[k] # None}

\* The equality conditions of a filter: the mapping itself, or the entries
\* of its "$and" list.
Conditions(fd) ==
    IF "$and" \in DOMAIN fd THEN Range(fd["$and"])
    ELSE IF DOMAIN fd = {} THEN {}
    ELSE {fd}

\* C1: whatever the six arguments are (the sentinel, "", None or a real
\* value each), no condition of the returned filter has the sentinel or a
\* falsy value as its value.
C1_NoSentinelOrFalsyValue ==
    op = "build_filter_dict" =>
        \A c \in Conditions(filter_dict) : \A k \in DOMAIN c :
            c[k] # NoFilter /\ c[k] # EmptyStr /\ c[k] # None

C1_Witness ==
    /\ op = "build_filter_dict"
    /\ sel["set_name"] = NoFilter
    /\ sel["card_type"] = EmptyStr
    /\ sel["color"] = None
    /\ sel["rarity"] = Red
    /\ sel["level"] = Blue
    /\ Cardinality(Conditions(filter_dict)) = 2

\* C2: with no selected argument the result is the empty mapping, with
\* exactly one it is {field: value} for that field; neither has a "$and" key.
C2_EmptyOrSingleMapping ==
    op = "build_filter_dict" =>
        /\ Cardinality(Selected(sel)) = 0 => DOMAIN filter_dict = {}
        /\ Cardinality(Selected(sel)) = 1 =>
              \E k \in Selected(sel) :
                  DOMAIN filter_dict = {k} /\ filter_dict[k] = sel[k]
        /\ Cardinality(Selected(sel)) <= 1 => "$and" \notin DOMAIN filter_dict

C2_Witness ==
    /\ op = "build_filter_dict"
    /\ Selected(sel) = {"color"}
    /\ sel["set_name"] = NoFilter
    /\ sel["level"] = None
    /\ filter_dict = Map1("color", sel["color"])

\* C3: with two or more selected arguments the result has the single key
\* "$and", whose list holds one single-key mapping {field: value} per
\* selected field and nothing else: as many entries as selected fields, no
\* field twice, each value the one selected.
C3_ConjunctionOfSelected ==
    (op = "build_filter_dict" /\ Cardinality(Selected(sel)) >= 2) =>
        /\ DOMAIN filter_dict = {"$and"}
        /\ LET l == filter_dict["$and"]
           IN  /\ Len(l) = Cardinality(Selected(sel))
               /\ \A i \in 1..Len(l) :
                      \E k \in Selected(sel) : DOMAIN l[i] = {k} /\ l[i][k] = sel[k]
               /\ \A i, j \in 1..Len(l) : DOMAIN l[i] = DOMAIN l[j] => i = j

C3_Witness ==
    /\ op = "build_filter_dict"
    /\ Selected(sel) = {"set_name", "color", "triggers"}
    /\ filter_dict = Map1("$and", <<Map1("set_name", sel["set_name"]),
                                    Map1("color", sel["color"]),
                                    Map1("triggers", sel["triggers"])>>)
    /\ sel["set_name"] # sel["color"]

----------------------------------------------------------------------------
(* Properties of the searches, under SpecSearch *)

\* Empty, or white space only.
Blank(q) == \A i \in 1..Len(q) : q[i] \in Whitespace

\* C4: for a blank query text, smart_search returns the empty list and has
\* called neither the embedding model nor the collection.
C4_BlankQueryNoCalls ==
    (op = "smart_search" /\ Blank(user_query)) => (Len(ret) = 0 /\ Len(calls) = 0)

C4_Witness ==
    /\ op = "smart_search"
    /\ user_query = <<9, 10, 32>>
    /\ Len(collection) > 0
    /\ filter_dict = EmptyMap
    /\ Len(ret) = 0

\* C5: for a query text that is not blank, smart_search returns at most
\* n_results records, and the distances of consecutive records do not decrease.
C5_BoundedAndRanked ==
    (op = "smart_search" /\ ~Blank(user_query)) =>
        /\ Len(ret) <= n_results
        /\ \A i \in 1..Len(ret) - 1 : ret[i][4] <= ret[i + 1][4]

C5_Witness ==
    /\ op = "smart_search"
    /\ ~Blank(user_query)
    /\ n_results = 2
    /\ Len(collection) > n_results
    /\ filter_dict = EmptyMap
    /\ Len(ret) = 2
    /\ ret[1][4] < ret[2][4]
    /\ ret[1][1] > ret[2][1]

\* C6: dumb_search returns at most `limit` records, each with None as its
\* distance, and does not call the embedding model.
C6_LimitedNoDistanceNoEncode ==
    op = "dumb_search" =>
        /\ Len(ret) <= dumb_limit
        /\ \A i \in 1..Len(ret) : ret[i][4] = None
        /\ \A i \in 1..Len(calls) : calls[i] # "encode"

C6_Witness ==
    /\ op = "dumb_search"
    /\ filter_dict = Map1("set_name", Booster1)
    /\ Len(SelectSeq(collection, LAMBDA r : "set_name" \in DOMAIN r.meta
                                             /\ r.meta["set_name"] = Booster1)) > dumb_limit
    /\ Len(ret) = dumb_limit
    /\ ret[1][4] = None

----------------------------------------------------------------------------
(* Properties of get_unique_values, under SpecScan *)

\* t is s without its leading and trailing white space.
IsTrimOf(t, s) ==
    \E i \in 1..Len(s) + 1, j \in 0..Len(s) :
        /\ t = SubSeq(s, i, j)
        /\ \A k \in 1..i - 1 : s[k] \in Whitespace
        /\ \A k \in j + 1..Len(s) : s[k] \in Whitespace
        /\ t # <<>> => (t[1] \notin Whitespace /\ t[Len(t)] \notin Whitespace)

\* a comes before b, by code points.
Precedes(a, b) ==
    \E k \in 1..Min(Len(a), Len(b)) + 1 :
        /\ \A m \in 1..k - 1 : a[m] = b[m]
        /\ \/ k > Len(a) /\ k <= Len(b)
           \/ k <= Len(a) /\ k <= Len(b) /\ a[k] < b[k]

\* C7: get_unique_values returns the values of the field over all records,
\* trimmed, without the missing and the empty ones, each once, in ascending
\* order by code point (so "Red" and "red" are two values), whatever the
\* size of the collection is relative to the page size.
C7_SortedDistinctTrimmedValues ==
    op = "get_unique_values" =>
        /\ \A i \in 1..Len(ret) - 1 : Precedes(ret[i], ret[i + 1])
        /\ \A i \in 1..Len(ret) :
              /\ ret[i] # <<>>
              /\ \E k \in 1..Len(collection) :
                    /\ field_name \in DOMAIN collection[k].meta
                    /\ IsTrimOf(ret[i], collection[k].meta[field_name])
        /\ \A k \in 1..Len(collection) :
              (/\ field_name \in DOMAIN collection[k].meta
               /\ ~Blank(collection[k].meta[field_name]))
              => \E i \in 1..Len(ret) : IsTrimOf(ret[i], collection[k].meta[field_name])

C7_Witness ==
    /\ op = "get_unique_values"
    /\ field_name = "color"
    /\ Len(collection) = 2 * PageSize + 1
    /\ collection[Len(collection)].meta["color"] = Pad(Blue)
    /\ ret = <<Blue, Red, red>>
    /\ Len(calls) = 4

----------------------------------------------------------------------------
(* The Streamlit script.  Every interaction runs main() from the top: it    *)
(* gets the facet values through get_unique_values_cached(), renders the    *)
(* widgets with the values the session holds, and runs the search of the    *)
(* button that was pressed, if any.  The two memos belong to the process    *)
(* and outlive the sessions.                                                *)

MaxDumbLimit == 11   \* the largest "Max number of results" drawn (the slider goes to 500)
MaxCached == 1       \* the most (filter_dict, limit) pairs the runs ask for
MaxMutations == 1    \* the most changes another process makes to the collection

NResultsMin == 1     \* st.slider("Number of results", min_value=1, ...)
DumbLimitMin == 10   \* st.slider("Max number of results", min_value=10, ...)

UiQueryTexts == {EmptyStr, <<32>>, <<97>>}

MaxUiNResults == 2   \* the largest "Number of results" drawn (the slider goes to 30)

\* A collection with more cards of one set than the largest limit; every
\* other card has its colour stored with white space around it.
LongCollection ==
    [i \in 1..MaxDumbLimit + 1 |->
        [id |-> i, doc |-> i,
         meta |-> [set_name |-> Booster1,
                   color |-> IF i % 2 = 0 THEN Pad(Red) ELSE Red],
         emb |-> i % 5]]

\* The collections behind the page: none, one card whose colour is stored
\* with white space around it, three cards of two sets, and the long one.
UiCollections ==
    {Stored(<<>>), Stored(<<Samples[2]>>),
     Stored(<<Samples[1], Samples[2], Samples[3]>>), LongCollection}

\* The id an added record gets: the least one not in use.
FreshId(coll) ==
    CHOOSE n \in 1..Len(coll) + 1 :
        /\ \A i \in 1..Len(coll) : coll[i].id # n
        /\ \A m \in 1..n - 1 : \E i \in 1..Len(coll) : coll[i].id = m

Init ==
    /\ collection \in UiCollections
    /\ uv_cache = <<>>
    /\ fc_cache = {}
    /\ sel = AllNoFilter
    /\ user_query = EmptyStr
    /\ n_results = Min(10, MaxUiNResults)
    /\ dumb_limit = Min(50, MaxDumbLimit)
    /\ filter_dict = EmptyMap
    /\ field_name = "none"
    /\ ret = <<>>
    /\ op = "none"
    /\ calls = <<>>
    /\ mutations = 0

\* A browser opens the page: a new session, the widgets at their defaults.
Load ==
    LET u == get_unique_values_cached(uv_cache, collection)
    IN  /\ uv_cache' = u.cache
        /\ sel' = AllNoFilter
        /\ user_query' = EmptyStr
        /\ n_results' = Min(10, MaxUiNResults)
        /\ dumb_limit' = Min(50, MaxDumbLimit)
        /\ ret' = <<>>
        /\ calls' = u.calls
        /\ op' = "load"
        /\ filter_dict' = EmptyMap
        /\ UNCHANGED <<collection, fc_cache, field_name, mutations>>

\* The user picks an option of one of the six selectboxes.
SelectFacet ==
    /\ uv_cache # <<>>
    /\ LET u == get_unique_values_cached(uv_cache, collection)
       IN  \E f \in FacetFields : \E v \in Range(<<NoFilter>> \o u.ret[f]) :
              /\ uv_cache' = u.cache
              /\ sel' = [sel EXCEPT ![f] = v]
              /\ ret' = <<>>
              /\ calls' = u.calls
              /\ op' = "widget"
              /\ filter_dict' = EmptyMap
              /\ UNCHANGED <<collection, fc_cache, user_query, n_results, dumb_limit,
                             field_name, mutations>>

TypeQuery ==
    /\ uv_cache # <<>>
    /\ LET u == get_unique_values_cached(uv_cache, collection)
       IN  \E q \in UiQueryTexts :
              /\ uv_cache' = u.cache
              /\ user_query' = q
              /\ ret' = <<>>
              /\ calls' = u.calls
              /\ op' = "widget"
              /\ filter_dict' = EmptyMap
              /\ UNCHANGED <<collection, fc_cache, sel, n_results, dumb_limit,
                             field_name, mutations>>

SlideNResults ==
    /\ uv_cache # <<>>
    /\ LET u == get_unique_values_cached(uv_cache, collection)
       IN  \E n \in NResultsMin..MaxUiNResults :
              /\ uv_cache' = u.cache
              /\ n_results' = n
              /\ ret' = <<>>
              /\ calls' = u.calls
              /\ op' = "widget"
              /\ filter_dict' = EmptyMap
              /\ UNCHANGED <<collection, fc_cache, sel, user_query, dumb_limit,
                             field_name, mutations>>

SlideDumbLimit ==
    /\ uv_cache # <<>>
    /\ LET u == get_unique_values_cached(uv_cache, collection)
       IN  \E l \in DumbLimitMin..MaxDumbLimit :
              /\ uv_cache' = u.cache
              /\ dumb_limit' = l
              /\ ret' = <<>>
              /\ calls' = u.calls
              /\ op' = "widget"
              /\ filter_dict' = EmptyMap
              /\ UNCHANGED <<collection, fc_cache, sel, user_query, n_results,
                             field_name, mutations>>

\* "Run Smart Search"
RunSmartSearch ==
    /\ uv_cache # <<>>
    /\ LET u == get_unique_values_cached(uv_cache, collection)
           fd == BuildFromSel(sel)
           r == smart_search(collection, "sbert", user_query, n_results, fd)
       IN  /\ uv_cache' = u.cache
           /\ filter_dict' = fd
           /\ ret' = r.ret
           /\ calls' = u.calls \o r.calls
           /\ op' = "run_smart_search"
           /\ UNCHANGED <<collection, fc_cache, sel, user_query, n_results, dumb_limit,
                          field_name, mutations>>

\* "Show Filtered Cards"
ShowFilteredCards ==
    /\ uv_cache # <<>>
    /\ LET u == get_unique_values_cached(uv_cache, collection)
           fd == BuildFromSel(sel)
           r == get_filtered_cards(fc_cache, collection, fd, dumb_limit)
       IN  /\ r.cache = fc_cache \/ Cardinality(fc_cache) < MaxCached
           /\ uv_cache' = u.cache
           /\ filter_dict' = fd
           /\ fc_cache' = r.cache
           /\ ret' = r.ret
           /\ calls' = u.calls \o r.calls
           /\ op' = "show_filtered_cards"
           /\ UNCHANGED <<collection, sel, user_query, n_results, dumb_limit,
                          field_name, mutations>>

\* Another process deletes the last record, or adds a card of another set.
ExternalMutation ==
    /\ mutations < MaxMutations
    /\ mutations' = mutations + 1
    /\ \/ /\ Len(collection) > 0
          /\ collection' = SubSeq(collection, 1, Len(collection) - 1)
       \/ collection' = Append(collection,
              [id |-> FreshId(collection), doc |-> FreshId(collection),
               meta |-> Samples[3].meta, emb |-> Samples[3].emb])
    /\ UNCHANGED <<uv_cache, fc_cache, sel, user_query, n_results, dumb_limit,
                   filter_dict, field_name, ret, op, calls>>

\* The two buttons read disjoint widgets and only "Show Filtered Cards" goes
\* through the memo of get_filtered_cards, so the script is explored as two
\* flows over the same state: the page with the filter-only search, and the
\* page with the smart search.
Next ==
    \/ Load
    \/ SelectFacet
    \/ SlideDumbLimit
    \/ ShowFilteredCards
    \/ ExternalMutation

Spec == Init /\ [][Next]_vars

NextSmart ==
    \/ Load
    \/ SelectFacet
    \/ TypeQuery
    \/ SlideNResults
    \/ RunSmartSearch
    \/ ExternalMutation

SpecSmart == Init /\ [][NextSmart]_vars

----------------------------------------------------------------------------
(* Properties of the page with the filter-only search, under Spec *)

\* C8: after "Show Filtered Cards" with some selectors at real values and
\* the others at "(No Filter)", every record shown has the selected value
\* in each selected field, and at most dumb_limit records are shown.
C8_ShownCardsMatchSelection ==
    op = "show_filtered_cards" =>
        /\ Len(ret) <= dumb_limit
        /\ \A i \in 1..Len(ret) : \A f \in FacetFields :
              sel[f] # NoFilter =>
                  (f \in DOMAIN ret[i][3] /\ ret[i][3][f] = sel[f])

\* Set Name = "Booster1", Color = "(No Filter)", limit 10, more than ten
\* cards of the set stored, one of them of another colour than the first.
C8_Witness ==
    /\ op = "show_filtered_cards"
    /\ sel["set_name"] = Booster1
    /\ sel["color"] = NoFilter
    /\ dumb_limit = 10
    /\ Len(collection) > 10
    /\ Len(ret) = 10
    /\ ret[1][3]["color"] # ret[2][3]["color"]

\* C9: a call of get_filtered_cards with a (filter, limit) pair an earlier
\* call used returns the result of that call without a read of the
\* collection, whatever the collection holds by now; entries of the memo
\* never go or change; get_unique_values_cached scans the collection on
\* its first call only (no run of the script after it reads a page).  A
\* step that leaves `mutations` alone is a run of the script, and the runs
\* that end with op = "show_filtered_cards" are those of the button.
C9_MemoisedNeverRefreshed ==
    [][ /\ (op' = "show_filtered_cards" /\ mutations' = mutations) =>
              \A e \in fc_cache :
                  e.key = <<BuildFromSel(sel), dumb_limit>> =>
                      /\ ret' = e.value
                      /\ \A i \in 1..Len(calls') : calls'[i] # "get"
                      /\ fc_cache' = fc_cache
        /\ fc_cache \subseteq fc_cache'
        /\ uv_cache # <<>> =>
              /\ uv_cache' = uv_cache
              /\ mutations' = mutations =>
                    \A i \in 1..Len(calls') : calls'[i] # "get_page"
      ]_vars

\* The same selection is shown a second time after another process has
\* changed the collection: no read, and the cards of the first time, which
\* are no longer what the collection would give.
C9_Witness ==
    /\ op = "show_filtered_cards"
    /\ mutations > 0
    /\ calls = <<>>
    /\ Len(ret) > 0
    /\ Len(ret) # Len(dumb_search(collection, filter_dict, dumb_limit).ret)
    /\ \E e \in fc_cache : e.key = <<filter_dict, dumb_limit>> /\ e.value = ret

\* C10: every value get_unique_values returns for a facet field, selected
\* for that field alone, gives at least one record in dumb_search on the
\* same collection, for any limit >= 1.
C10_OfferedValueMatchesACard ==
    \A f \in FacetFields :
        LET vals == get_unique_values(collection, f).ret
        IN  \A i \in 1..Len(vals) : \A l \in 1..MaxLimit :
                Len(dumb_search(collection,
                                BuildFromSel([AllNoFilter EXCEPT ![f] = vals[i]]),
                                l).ret) >= 1

====
